---- MODULE Spec2Model ----
(***************************************************************************)
(* Model of the four entry points of community_detection_graphs:           *)
(*   find_k_community, find_connected_k_community,                         *)
(*   find_max_community, find_connected_max_community.                     *)
(* Each call is a small state machine: validate the input, create the      *)
(* solver model (variables, constraints, objective), optimize, extract.    *)
(* The external solver is modelled by its contract: it reports INFEASIBLE  *)
(* only when no assignment satisfies the constraints the code added,       *)
(* OPTIMAL with an assignment that satisfies them and maximises the        *)
(* objective the code set, or TIME_LIMIT with any feasible incumbent or    *)
(* with none.                                                              *)
(***************************************************************************)
EXTENDS Integers, Sequences, FiniteSets, TLC

VARIABLES fn, A, k, pc, model, solveCalls, status, sol, ret, value,
          xcand, probe

vars == <<fn, A, k, pc, model, solveCalls, status, sol, ret, value,
          xcand, probe>>

(* ------------------------------ bounds --------------------------------- *)
\* largest number of vertices of the symmetric zero-diagonal input graphs
MaxN == 4
\* largest number of communities k requested
MaxK == 3
\* largest side of the unrestricted 0/1 input matrices (non-square,
\* non-symmetric, non-zero diagonal)
MaxRaw == 2
\* largest flow value tried on an arc when looking for a feasible flow
FlowMax == 1

(* ------------------------------ inputs --------------------------------- *)
KFns == {"find_k_community", "find_connected_k_community"}
MaxFns == {"find_max_community", "find_connected_max_community"}
ConnectedFns == {"find_connected_k_community", "find_connected_max_community"}
Fns == KFns \cup MaxFns

\* A.shape[0], A.shape[1]
Rows(M) == Cardinality(DOMAIN M)
Cols(M) == Cardinality(DOMAIN M[0])

Pairs(n) == {e \in (0..(n-1)) \X (0..(n-1)) : e[1] < e[2]}

\* the adjacency matrix of the undirected simple graph with edge set E
GraphOf(n, E) ==
    [i \in 0..(n-1) |-> [j \in 0..(n-1) |->
        IF <<i, j>> \in E \/ <<j, i>> \in E THEN 1 ELSE 0]]

ValidGraphs == UNION {{GraphOf(n, E) : E \in SUBSET Pairs(n)} : n \in 1..MaxN}

RawMatrices ==
    UNION {[0..(r-1) -> [0..(c-1) -> 0..1]] : r \in 1..MaxRaw, c \in 1..MaxRaw}

Inputs == ValidGraphs \cup RawMatrices

(* ------------------------- helpers (quicksum) -------------------------- *)
RECURSIVE SumUpTo(_, _)
\* sum of g[0], ..., g[m-1]
SumUpTo(g, m) == IF m = 0 THEN 0 ELSE g[m-1] + SumUpTo(g, m-1)

\* quicksum(g[v] for v in range(n))
quicksum(g) == SumUpTo(g, Cardinality(DOMAIN g))

\* V = range(n) as the ordered sequence the list comprehensions iterate
VSeq(n) == [i \in 1..n |-> i - 1]

(* ---------------------- input validation ------------------------------ *)
Square(M) == Rows(M) = Cols(M)

\* (A == A.T).all(), evaluated only on a square matrix
Symmetric(M) ==
    \A i \in DOMAIN M : \A j \in DOMAIN M : M[i][j] = M[j][i]

Passed == [kind |-> "ok", msg |-> ""]
AssertionError(m) == [kind |-> "AssertionError", msg |-> m]
Str(m) == [kind |-> "str", msg |-> m]
Dict == [kind |-> "dict", msg |-> ""]
NoReturn == [kind |-> "none", msg |-> ""]

\* the two assertions every entry point starts with
AssertMatrix(M) ==
    IF ~Square(M) THEN AssertionError("Adjacency matrix must be square.")
    ELSE IF ~Symmetric(M) THEN AssertionError("Adjacency matrix must be symmetric.")
    ELSE Passed

\* the size checks of the k-community entry points, in the order of the code
KSizeCheck(n, kk) ==
    IF n < 4 THEN Str("The graph has less than 4 vertices.")
    ELSE IF n < 2 * kk THEN Str("The number of vertices must be at least 2*k.")
    ELSE IF kk < 2 THEN Str("k must be at least 2.")
    ELSE Passed

\* the size check of the max-community entry points
MaxSizeCheck(n) ==
    IF n < 3 THEN Str("Graph has less than 3 vertices.") ELSE Passed

\* a mutant of Validate: the size checks run before the assertions
ValidateSizeFirst(f, M, kk) ==
    LET size == IF f \in KFns THEN KSizeCheck(Rows(M), kk) ELSE MaxSizeCheck(Rows(M))
    IN  IF size.kind # "ok" THEN size ELSE AssertMatrix(M)

\* everything an entry point does before it creates the solver model
Validate(f, M, kk) ==
    IF AssertMatrix(M).kind # "ok" THEN AssertMatrix(M)
    ELSE IF f \in KFns THEN KSizeCheck(Rows(M), kk)
    ELSE MaxSizeCheck(Rows(M))

(* -------------------- k-community formulation -------------------------- *)
\* V = range(n)
V(M) == 0..(Rows(M) - 1)
\* range(k)
K(kk) == 0..(kk - 1)


\* a mutant of LinkOK: the lower bound WlinkedtoX3 is missing
LinkOKNoLower(w, a, b) == w <= a /\ w <= b

\* 2. Link w to x: the three constraints on w[j1, j2, p, q]
LinkOK(w, a, b) == w <= a /\ w <= b /\ w >= a + b - 1

\* the value the link constraints leave for the binary w[j1, j2, p, q]
W(x, j1, j2, p, q) == CHOOSE w \in 0..1 : LinkOK(w, x[j1][p], x[j2][q])

\* A[i, j1] * quicksum(w[j1, j2, p, q] for j2 in V), summed over j1 (a term
\* with coefficient A[i, j1] = 0 is 0 whatever the inner sum)
N_C(M, x, i, p, q) ==
    quicksum([j1 \in V(M) |->
        IF M[i][j1] = 0 THEN 0
        ELSE M[i][j1] * quicksum([j2 \in V(M) |-> W(x, j1, j2, p, q)])])

\* A[i, l1] * quicksum(w[l1, l2, q, p] for l2 in V), summed over l1
N_Cprime(M, x, i, p, q) ==
    quicksum([l1 \in V(M) |->
        IF M[i][l1] = 0 THEN 0
        ELSE M[i][l1] * quicksum([l2 \in V(M) |-> W(x, l1, l2, q, p)])])

correction(M, x, i, q) == quicksum([l \in V(M) |-> x[l][q] * M[i][l]])

\* a mutant of CpwrtCq: the correction term is left out
CpwrtCqNoCorrection(M, x, i, p, q) ==
    x[i][p] = 1 => N_C(M, x, i, p, q) >= N_Cprime(M, x, i, p, q)

\* 1. the indicator constraint CpwrtCq_i_p_q, enforced only if x[i, p] = 1
CpwrtCq(M, x, i, p, q) ==
    x[i][p] = 1 =>
        N_C(M, x, i, p, q) >= N_Cprime(M, x, i, p, q) - correction(M, x, i, q)

\* 3. At least two vertices in each community
atLeastTwoinCi(M, x, p) == quicksum([i \in V(M) |-> x[i][p]]) >= 2

\* a mutant of everyvertexbelongsto1community: at least one community
everyvertexbelongstoSomecommunity(kk, xi) ==
    quicksum([p \in K(kk) |-> xi[p]]) >= 1

\* 4. Every vertex belongs to exactly one community; xi is the row x[i, *]
everyvertexbelongsto1community(kk, xi) ==
    quicksum([p \in K(kk) |-> xi[p]]) = 1

\* x = addVars(V, range(k), BINARY). Constraint 4 reads one row of x at a
\* time, so the rows that violate it are left out when the assignments are
\* enumerated; KConstraints states the constraint again on the whole of x.
XVarsK(M, kk) ==
    [V(M) -> {xi \in [K(kk) -> 0..1] : everyvertexbelongsto1community(kk, xi)}]

\* all constraints of find_k_community
KConstraints(M, kk, x) ==
    /\ \A i \in V(M) : everyvertexbelongsto1community(kk, x[i])
    /\ \A p \in K(kk) : atLeastTwoinCi(M, x, p)
    /\ \A i \in V(M) : \A p \in K(kk) : \A q \in K(kk) :
          p # q => CpwrtCq(M, x, i, p, q)

(* ------------------------ connectivity (flow) -------------------------- *)
root == 0

\* the arcs on which the flow is constrained: A[i, j] == 1
Arcs(M) == {e \in V(M) \X V(M) : M[e[1]][e[2]] = 1}

\* flow conservation at every vertex but the root
flow_conservation(M, f, i) ==
    quicksum([j \in V(M) |-> IF M[j][i] = 1 THEN f[<<j, i>>] ELSE 0]) =
    quicksum([j \in V(M) |-> IF M[i][j] = 1 THEN f[<<i, j>>] ELSE 0])

\* flow_capacity_start and flow_capacity_end, m[i] the membership of vertex i
flow_capacity(m, f, e) == f[e] <= m[e[1]] /\ f[e] <= m[e[2]]

\* some flow f >= 0 satisfies conservation and capacity for membership m.
\* The flow variables are continuous; the zero flow is among the values
\* tried, and every constraint on f is of the form "<= 0/1" or a balance, so
\* an integral grid 0..FlowMax decides the same question.
FlowFeasible(M, m) ==
    \E f \in [Arcs(M) -> 0..FlowMax] :
        /\ \A i \in V(M) : i # root => flow_conservation(M, f, i)
        /\ \A e \in Arcs(M) : flow_capacity(m, f, e)

\* a mutant of root_in_community: the root is required in community 0 only
root_in_first_community(x, p) == p = 0 => x[root][p] = 1

\* root_in_community_p: Root must belong to the community (added for every p)
root_in_community(x, p) == x[root][p] = 1

\* all constraints of find_connected_k_community
ConnectedKConstraints(M, kk, x) ==
    /\ \A p \in K(kk) : root_in_community(x, p)
    /\ KConstraints(M, kk, x)
    /\ \A p \in K(kk) : FlowFeasible(M, [i \in V(M) |-> x[i][p]])

(* ------------------- max-community formulation ------------------------- *)
\* x = addVars(V, BINARY)
XVarsMax(M) == [V(M) -> 0..1]

S_size(x) == quicksum(x)

complement_size(M, x) == Rows(M) - S_size(x)

d_S(M, x, u) ==
    quicksum([v \in V(M) |-> IF u # v THEN M[u][v] * x[v] ELSE 0])

d_not_S(M, x, u) ==
    quicksum([v \in V(M) |-> IF u # v THEN M[u][v] * (1 - x[v]) ELSE 0])

\* a mutant of pds_constraint: the two sides of the inequality exchanged
pds_constraint_swapped(M, x, u) ==
    x[u] = 1 =>
        d_not_S(M, x, u) * complement_size(M, x) >= d_S(M, x, u) * (S_size(x) - 1)

\* the indicator constraint pds_constraint_u, enforced only if x[u] = 1
pds_constraint(M, x, u) ==
    x[u] = 1 =>
        d_S(M, x, u) * complement_size(M, x) >= d_not_S(M, x, u) * (S_size(x) - 1)

\* S has at least 2 vertices
min_size_S(x) == S_size(x) >= 2

\* a mutant of max_size_S: S may be the whole vertex set
max_size_S_all(M, x) == S_size(x) <= Rows(M)

\* S excludes at least one vertex
max_size_S(M, x) == S_size(x) <= Rows(M) - 1

\* all constraints of find_max_community
MaxConstraints(M, x) ==
    /\ min_size_S(x)
    /\ max_size_S(M, x)
    /\ \A u \in V(M) : pds_constraint(M, x, u)

\* all constraints of find_connected_max_community
ConnectedMaxConstraints(M, x) ==
    /\ x[root] = 1
    /\ MaxConstraints(M, x)
    /\ FlowFeasible(M, x)

(* ----------------------------- the solver ------------------------------ *)
ModelName(f) ==
    CASE f = "find_k_community" -> "k_community"
      [] f = "find_connected_k_community" -> "connected_k_community"
      [] f = "find_max_community" -> "MaxCommunity"
      [] f = "find_connected_max_community" -> "Connected_Max_Community"

\* the assignments of x that satisfy every constraint the entry point added
Feasible(f, M, kk) ==
    CASE f = "find_k_community" ->
            {x \in XVarsK(M, kk) : KConstraints(M, kk, x)}
      [] f = "find_connected_k_community" ->
            {x \in XVarsK(M, kk) : ConnectedKConstraints(M, kk, x)}
      [] f = "find_max_community" ->
            {x \in XVarsMax(M) : MaxConstraints(M, x)}
      [] f = "find_connected_max_community" ->
            {x \in XVarsMax(M) : ConnectedMaxConstraints(M, x)}

\* a mutant of Objective: no objective is set on the max-community models
ObjectiveNone(f, x) == 0

\* setObjective(quicksum(x[i] for i in V), MAXIMIZE); the k-community
\* models set no objective
Objective(f, x) == IF f \in MaxFns THEN quicksum(x) ELSE 0

\* the assignments an OPTIMAL status can come with
Optimal(f, feas) ==
    {x \in feas : \A y \in feas : Objective(f, y) <= Objective(f, x)}

(* ------------------------- result extraction --------------------------- *)
\* [i for i in V if x[i].X > 0.5]
MembersMax(M, x) == SelectSeq(VSeq(Rows(M)), LAMBDA i : 2 * x[i] > 1)

\* [i for i in V if x[i, p].X > 0.5]
MembersK(M, x, p) == SelectSeq(VSeq(Rows(M)), LAMBDA i : 2 * x[i][p] > 1)

\* {p + 1: [...] for p in range(k)}
Communities(M, kk, x) == [c \in 1..kk |-> MembersK(M, x, c - 1)]

InfeasibleMessage(f, kk) ==
    CASE f = "find_k_community" ->
            Str("No " \o ToString(kk) \o "-community exists.")
      [] f = "find_connected_k_community" ->
            Str("No connected " \o ToString(kk) \o "-community exists.")
      [] OTHER ->
            Str("Unexpected: No PDS found. Please check the model or graph input.")

AttributeError == [kind |-> "AttributeError", msg |-> "X"]

\* what the entry point returns or raises after optimize(): s the status,
\* xs the set holding the solver's assignment (empty when it has none)
ExtractRet(f, kk, s, xs) ==
    IF f \in KFns
    THEN IF s = "INFEASIBLE" THEN InfeasibleMessage(f, kk)
         ELSE IF xs = {} THEN AttributeError
         ELSE Dict
    ELSE IF s = "OPTIMAL" THEN Dict
         ELSE InfeasibleMessage(f, kk)

\* the dict returned, when one is
ExtractValue(f, M, kk, x) ==
    CASE f \in KFns -> Communities(M, kk, x)
      [] f = "find_max_community" ->
            [PDS |-> MembersMax(M, x), size |-> Len(MembersMax(M, x))]
      [] f = "find_connected_max_community" ->
            [community |-> MembersMax(M, x), size |-> Len(MembersMax(M, x))]

(* ------------------------------ actions -------------------------------- *)
NoValue == <<>>

\* no constraint has been evaluated on a candidate assignment
NoProbe ==
    [kind |-> "none", i |-> 0, p |-> 0, q |-> 0, a |-> 0, b |-> 0, w |-> 0,
     holds |-> FALSE]

Init ==
    /\ fn \in Fns
    /\ A \in Inputs
    /\ k \in IF fn \in KFns THEN 1..MaxK ELSE {0}
    /\ pc = "validate"
    /\ model = "none"
    /\ solveCalls = 0
    /\ status = "none"
    /\ sol = {}
    /\ ret = NoReturn
    /\ value = NoValue
    /\ xcand = NoValue
    /\ probe = NoProbe

\* the assertions and the size checks
CheckInput ==
    /\ pc = "validate"
    /\ LET v == Validate(fn, A, k)
       IN  /\ pc' = CASE v.kind = "ok" -> "create"
                      [] v.kind = "AssertionError" -> "raised"
                      [] OTHER -> "returned"
           /\ ret' = IF v.kind = "ok" THEN ret ELSE v
    /\ UNCHANGED <<fn, A, k, model, solveCalls, status, sol, value, xcand, probe>>

\* Model(...), addVars, setObjective, addConstr, addGenConstrIndicator
CreateModel ==
    /\ pc = "create"
    /\ model' = ModelName(fn)
    /\ pc' = "optimize"
    /\ UNCHANGED <<fn, A, k, solveCalls, status, sol, ret, value, xcand, probe>>

\* model.optimize(): the solver proves infeasibility
OptimizeInfeasible(feas) ==
    /\ feas = {}
    /\ status' = "INFEASIBLE"
    /\ sol' = {}

\* model.optimize(): the solver proves optimality
OptimizeOptimal(feas) ==
    /\ \E x \in Optimal(fn, feas) : sol' = {x}
    /\ status' = "OPTIMAL"

\* model.optimize(): the solver stops at a limit, with or without an incumbent
OptimizeTimeLimit(feas) ==
    /\ \/ sol' = {}
       \/ \E x \in feas : sol' = {x}
    /\ status' = "TIME_LIMIT"

\* model.optimize(), one blocking call ending in one of the statuses
Optimize ==
    /\ pc = "optimize"
    /\ LET feas == Feasible(fn, A, k)
       IN  \/ OptimizeInfeasible(feas)
           \/ OptimizeOptimal(feas)
           \/ OptimizeTimeLimit(feas)
    /\ solveCalls' = solveCalls + 1
    /\ pc' = "extract"
    /\ UNCHANGED <<fn, A, k, model, ret, value, xcand, probe>>

\* the status test and the extraction of the result
Extract ==
    /\ pc = "extract"
    /\ ret' = ExtractRet(fn, k, status, sol)
    /\ value' = IF ret'.kind = "dict"
                THEN ExtractValue(fn, A, k, CHOOSE x \in sol : TRUE)
                ELSE value
    /\ pc' = IF ret'.kind = "AttributeError" THEN "raised" ELSE "returned"
    /\ UNCHANGED <<fn, A, k, model, solveCalls, status, sol, xcand, probe>>

Next ==
    \/ CheckInput
    \/ CreateModel
    \/ Optimize
    \/ Extract

Spec == Init /\ [][Next]_vars

(* ------------- the constraints of the k-community models --------------- *)
(* A second specification looks inside the creation of the model: the call  *)
(* has passed validation, xcand is any 0/1 assignment of x whose rows       *)
(* satisfy constraint 4, and one step evaluates one constraint the code     *)
(* adds, on xcand and (for a link constraint) on a 0/1 value of w.          *)
FormInit ==
    /\ fn \in KFns
    /\ A \in ValidGraphs
    /\ k \in 1..MaxK
    /\ Validate(fn, A, k).kind = "ok"
    /\ pc = "create"
    /\ model = "none"
    /\ solveCalls = 0
    /\ status = "none"
    /\ sol = {}
    /\ ret = NoReturn
    /\ value = NoValue
    /\ xcand \in XVarsK(A, k)
    /\ probe = NoProbe

\* addConstr WlinkedtoX1/2/3 for one (j1, j2, p, q), read at w[j1,j2,p,q] = w;
\* the step records the values x[j1, p], x[j2, q] the constraints read
AddLinkConstr ==
    /\ pc = "create"
    /\ probe = NoProbe
    /\ \E ab \in {<<xcand[j1][p], xcand[j2][q]>> :
                      j1 \in V(A), j2 \in V(A), p \in K(k), q \in K(k)} :
       \E w \in 0..1 :
          probe' = [kind |-> "link", i |-> 0, p |-> 0, q |-> 0,
                    a |-> ab[1], b |-> ab[2], w |-> w,
                    holds |-> LinkOK(w, ab[1], ab[2])]
    /\ UNCHANGED <<fn, A, k, pc, model, solveCalls, status, sol, ret, value, xcand>>

\* addGenConstrIndicator CpwrtCq for one (i, p, q), p != q
AddDensityConstr ==
    /\ pc = "create"
    /\ probe = NoProbe
    /\ \E i \in V(A), p \in K(k), q \in K(k) :
          /\ p # q
          /\ probe' = [kind |-> "density", i |-> i, p |-> p, q |-> q,
                       a |-> 0, b |-> 0, w |-> 0,
                       holds |-> CpwrtCq(A, xcand, i, p, q)]
    /\ UNCHANGED <<fn, A, k, pc, model, solveCalls, status, sol, ret, value, xcand>>

FormNext ==
    \/ AddLinkConstr
    \/ AddDensityConstr

FormSpec == FormInit /\ [][FormNext]_vars

(* ===================== properties of the entry points ================== *)
Terminal == pc \in {"returned", "raised"}

NumVertices == Rows(A)

Range(seq) == {seq[i] : i \in DOMAIN seq}

\* a symmetric 0/1 matrix with a zero diagonal
ValidGraph(M) ==
    /\ Square(M)
    /\ \A i \in DOMAIN M : \A j \in DOMAIN M :
          M[i][j] \in {0, 1} /\ M[i][j] = M[j][i]
    /\ \A i \in DOMAIN M : M[i][i] = 0

\* the number of neighbours of u inside the vertex set S
Deg(M, u, S) == Cardinality({v \in S : v # u /\ M[u][v] = 1})

\* every member of S is proportionally dense:
\* d_S(u) * |V \ S| >= d_{V\S}(u) * (|S| - 1)
IsPDS(M, S) ==
    \A u \in S :
        Deg(M, u, S) * Cardinality(V(M) \ S) >=
        Deg(M, u, V(M) \ S) * (Cardinality(S) - 1)

RECURSIVE ReachFrom(_, _, _)
\* the members of S reachable from R along edges between members of S
ReachFrom(M, S, R) ==
    LET R2 == R \cup {v \in S : \E u \in R : M[u][v] = 1}
    IN  IF R2 = R THEN R ELSE ReachFrom(M, S, R2)

\* the subgraph induced by S is connected
Connected(M, S) == S = {} \/ ReachFrom(M, S, {CHOOSE s \in S : TRUE}) = S

\* the member list of the dict a max-community entry point returned
ReturnedMembers ==
    IF fn = "find_max_community" THEN value.PDS ELSE value.community

ReturnedDict == pc = "returned" /\ ret.kind = "dict"

(* C1: whenever find_k_community returns a community mapping for a valid  *)
(* graph with n >= 4, n >= 2k, k >= 2, every vertex 0..n-1 appears exactly *)
(* once over all member lists and each of the k communities has at least   *)
(* 2 members.                                                              *)
C1_PartitionWithPairs ==
    (/\ fn = "find_k_community"
     /\ ReturnedDict
     /\ ValidGraph(A) /\ NumVertices >= 4 /\ NumVertices >= 2 * k /\ k >= 2)
    => /\ DOMAIN value = 1..k
       /\ \A v \in V(A) :
             Cardinality({e \in (1..k) \X (1..NumVertices) :
                 e[2] \in DOMAIN value[e[1]] /\ value[e[1]][e[2]] = v}) = 1
       /\ \A c \in 1..k : Len(value[c]) >= 2

\* C1 witness: a mapping was returned for a graph with an edge between two
\* communities
C1_Witness ==
    /\ fn = "find_k_community"
    /\ ReturnedDict
    /\ status = "OPTIMAL"
    /\ k = 2
    /\ \E u \in Range(value[1]) : \E v \in Range(value[2]) : A[u][v] = 1

(* C2: whenever find_max_community or find_connected_max_community returns *)
(* a member set S for a valid graph with n >= 3, 2 <= |S| <= n-1 and every *)
(* member of S satisfies the proportional-density inequality.              *)
C2_ReturnedSetIsPDS ==
    (/\ fn \in MaxFns
     /\ ReturnedDict
     /\ ValidGraph(A) /\ NumVertices >= 3)
    => LET S == Range(ReturnedMembers)
       IN  /\ 2 <= Cardinality(S)
           /\ Cardinality(S) <= NumVertices - 1
           /\ value.size = Cardinality(S)
           /\ S \subseteq V(A)
           /\ IsPDS(A, S)

\* C2 witness: a returned set one of whose members has a neighbour outside
C2_Witness ==
    /\ fn \in MaxFns
    /\ ReturnedDict
    /\ \E u \in Range(ReturnedMembers) :
          Deg(A, u, V(A) \ Range(ReturnedMembers)) > 0

(* C3: on an OPTIMAL status find_max_community returns a maximum           *)
(* proportionally dense set: no vertex subset of size 2..n-1 whose members *)
(* all satisfy the inequality is larger, and the reported size is the      *)
(* number of returned members.                                             *)
C3_ReturnedSetIsMaximum ==
    (/\ fn = "find_max_community"
     /\ pc = "returned"
     /\ status = "OPTIMAL"
     /\ ValidGraph(A) /\ NumVertices >= 3)
    => /\ ret.kind = "dict"
       /\ value.size = Len(value.PDS)
       /\ value.size = Cardinality(Range(value.PDS))
       /\ \A S2 \in SUBSET V(A) :
             (2 <= Cardinality(S2) /\ Cardinality(S2) <= NumVertices - 1 /\ IsPDS(A, S2))
             => Cardinality(S2) <= value.size

\* C3 witness: an optimal set was returned although a smaller
\* proportionally dense set exists too
C3_Witness ==
    /\ fn = "find_max_community"
    /\ ReturnedDict
    /\ status = "OPTIMAL"
    /\ \E S2 \in SUBSET V(A) :
          /\ 2 <= Cardinality(S2)
          /\ Cardinality(S2) < value.size
          /\ IsPDS(A, S2)

(* C4: every community the connected variants return for a valid input     *)
(* induces a connected subgraph of A.                                      *)
C4_ReturnedCommunitiesConnected ==
    (/\ fn \in ConnectedFns
     /\ ReturnedDict
     /\ status = "OPTIMAL"
     /\ ValidGraph(A))
    => IF fn = "find_connected_max_community"
       THEN Connected(A, Range(value.community))
       ELSE \A c \in DOMAIN value : Connected(A, Range(value[c]))

\* the size preconditions of the entry point, stated apart from the code
SizePreconditions ==
    IF fn \in MaxFns THEN NumVertices >= 3 ELSE NumVertices >= 4 /\ NumVertices >= 2 * k /\ k >= 2

ValidationMessages ==
    {"Graph has less than 3 vertices.",
     "The graph has less than 4 vertices.",
     "The number of vertices must be at least 2*k.",
     "k must be at least 2."}

NoSolverUse == model = "none" /\ solveCalls = 0 /\ status = "none"

InfeasibleOutcome == ExtractRet(fn, k, "INFEASIBLE", {})

(* C6: when the solver ends with TIME_LIMIT, the entry point's outcome is  *)
(* neither the infeasible outcome nor a successful structure.              *)
C6_TimeLimitSurfacedDistinctly ==
    (Terminal /\ status = "TIME_LIMIT")
    => (ret # InfeasibleOutcome /\ ret.kind # "dict")

\* two disjoint edges 0-1 and 2-3 on 4 vertices
TwoDisjointEdges == GraphOf(4, {<<0, 1>>, <<2, 3>>})

\* c maps every vertex to its community; the communities are connected,
\* of size >= 2, and every vertex is proportionally at least as dense
\* toward its own community as toward every other one
GoodConnectedPartition(M, kk, c) ==
    LET C(p) == {v \in V(M) : c[v] = p}
    IN  /\ \A p \in 1..kk : Cardinality(C(p)) >= 2 /\ Connected(M, C(p))
        /\ \A i \in V(M) : \A q \in (1..kk) \ {c[i]} :
              Deg(M, i, C(c[i])) * Cardinality(C(q)) >=
              Deg(M, i, C(q)) * (Cardinality(C(c[i])) - 1)

AdmitsConnectedKPartition(M, kk) ==
    \E c \in [V(M) -> 1..kk] : GoodConnectedPartition(M, kk, c)

(* C7: when the graph admits a partition into k connected, proportionally  *)
(* dense communities of size >= 2, find_connected_k_community returns a    *)
(* mapping with exactly k communities and not the infeasibility message;   *)
(* for two disjoint edges and k = 2 the two communities are the two edges' *)
(* endpoint pairs.                                                         *)
C7_ConnectedPartitionFound ==
    (/\ fn = "find_connected_k_community"
     /\ Terminal
     /\ status \in {"OPTIMAL", "INFEASIBLE"}
     /\ ValidGraph(A) /\ SizePreconditions
     /\ AdmitsConnectedKPartition(A, k))
    => /\ ReturnedDict
       /\ DOMAIN value = 1..k
       /\ (A = TwoDisjointEdges /\ k = 2)
             => {Range(value[1]), Range(value[2])} = {{0, 1}, {2, 3}}

\* the graph of 3 mutually adjacent vertices
Triangle == GraphOf(3, {<<0, 1>>, <<0, 2>>, <<1, 2>>})

(* C8 as stated: for the triangle find_max_community returns all 3         *)
(* vertices as members with size 3.                                        *)
C8_TriangleReturnsAll ==
    (/\ fn = "find_max_community"
     /\ A = Triangle
     /\ pc = "returned"
     /\ status = "OPTIMAL")
    => (ret.kind = "dict" /\ value.PDS = <<0, 1, 2>> /\ value.size = 3)

(* C8 amended: for the triangle find_max_community returns a member set    *)
(* exactly when the solver reports OPTIMAL, and the set is then 2 of the 3 *)
(* vertices with size 2; the solver never reports the model infeasible.    *)
C8_TriangleReturnsPair ==
    (/\ fn = "find_max_community"
     /\ A = Triangle
     /\ Terminal)
    => /\ pc = "returned"
       /\ status # "INFEASIBLE"
       /\ ret.kind = "dict" <=> status = "OPTIMAL"
       /\ ret.kind = "dict" =>
             /\ value.size = 2
             /\ Len(value.PDS) = 2
             /\ Cardinality(Range(value.PDS)) = 2
             /\ Range(value.PDS) \subseteq 0..2

\* C8 witness: the triangle's call returned the pair 0, 1
C8_Witness ==
    /\ fn = "find_max_community"
    /\ A = Triangle
    /\ ReturnedDict
    /\ value = [PDS |-> <<0, 1>>, size |-> 2]

\* every two distinct vertices are adjacent
Complete(M) ==
    ValidGraph(M) /\ \A i \in V(M) : \A j \in V(M) : i # j => M[i][j] = 1

(* C9: for a complete graph and k = 1, find_k_community and                *)
(* find_connected_k_community return a mapping with exactly 1 community,   *)
(* not a message string.                                                   *)
C9_SingleCommunityReturned ==
    (/\ fn \in KFns
     /\ k = 1
     /\ Complete(A) /\ NumVertices >= 3
     /\ Terminal)
    => (ReturnedDict /\ Cardinality(DOMAIN value) = 1)

(* C10: for every symmetric 0/1 zero-diagonal matrix with n >= 3,          *)
(* find_connected_max_community returns a dict whose size is at least 2,   *)
(* never the "no PDS found" message.                                       *)
C10_ConnectedMaxAlwaysFound ==
    (/\ fn = "find_connected_max_community"
     /\ ValidGraph(A) /\ NumVertices >= 3
     /\ Terminal
     /\ status \in {"OPTIMAL", "INFEASIBLE"})
    => (ReturnedDict /\ value.size >= 2)

(* C11: whatever 0/1 values x[v1,p], x[v2,q] and w[v1,v2,p,q] take, the    *)
(* three linking constraints hold if and only if w is the product          *)
(* x[v1,p] * x[v2,q]: they force the product, and the product satisfies    *)
(* them.                                                                   *)
C11_LinkForcesProduct ==
    probe.kind = "link" => (probe.holds <=> probe.w = probe.a * probe.b)

\* C11 witness: the link constraints were evaluated with both x at 1 and
\* w at 1, and hold
C11_Witness ==
    /\ probe.kind = "link"
    /\ probe.a = 1 /\ probe.b = 1 /\ probe.w = 1
    /\ probe.holds

\* the vertices an assignment x puts in community p
CommunityOf(M, x, p) == {v \in V(M) : x[v][p] = 1}

\* vertex i is proportionally at least as dense toward community p as
\* toward community q: d_Cp(i) * |Cq| >= d_Cq(i) * (|Cp| - 1)
DenseToward(M, x, i, p, q) ==
    Deg(M, i, CommunityOf(M, x, p)) * Cardinality(CommunityOf(M, x, q)) >=
    Deg(M, i, CommunityOf(M, x, q)) * (Cardinality(CommunityOf(M, x, p)) - 1)

(* C12: for a symmetric zero-diagonal 0/1 matrix and a 0/1 assignment that *)
(* satisfies the linking and exactly-one-community constraints, the        *)
(* density indicator constraint of (i, p, q), p != q, holds if and only if *)
(* i is not in community p or d_Cp(i)*|Cq| >= d_Cq(i)*(|Cp|-1); so the     *)
(* assignments that satisfy every constraint are the partitions into       *)
(* communities of at least 2 vertices in which every vertex is             *)
(* proportionally at least as dense toward its own community as toward     *)
(* every other one.                                                        *)
C12_DensityConstraintMeaning ==
    /\ probe.kind = "density" =>
          (probe.holds <=>
              \/ xcand[probe.i][probe.p] = 0
              \/ DenseToward(A, xcand, probe.i, probe.p, probe.q))
    /\ (pc = "create" /\ probe.kind = "none" /\ DOMAIN xcand = V(A)) =>
          (KConstraints(A, k, xcand) <=>
              /\ \A v \in V(A) :
                    Cardinality({p \in K(k) : xcand[v][p] = 1}) = 1
              /\ \A p \in K(k) : Cardinality(CommunityOf(A, xcand, p)) >= 2
              /\ \A v \in V(A) : \A p \in K(k) : \A q \in K(k) :
                    (xcand[v][p] = 1 /\ q # p) => DenseToward(A, xcand, v, p, q))

\* C12 witness: the density constraint was evaluated for a member of p with
\* neighbours in both p and q, and it is violated
C12_Witness ==
    /\ probe.kind = "density"
    /\ xcand[probe.i][probe.p] = 1
    /\ Deg(A, probe.i, CommunityOf(A, xcand, probe.p)) > 0
    /\ Deg(A, probe.i, CommunityOf(A, xcand, probe.q)) > 0
    /\ ~probe.holds

====
